---- MODULE Spec2Model ----
(***************************************************************************)
(* Model of the virtual address-space manager of Graetz.OS (i386 target):  *)
(* page-table entries, AddressSpace::map, getPhysicalAddress (translate)   *)
(* and the paging bootstrap AddressSpace::init.                            *)
(*                                                                         *)
(* A 32-bit machine word is the pair <<hi, lo>>: hi holds bits 31..12 (the *)
(* page number, 0..2^20-1) and lo bits 11..0 (the page offset or the       *)
(* attribute bits, 0..4095).  Every mask of the source splits a word at    *)
(* bit 12 (0xFFFFF000, 0x00000FFF, PAGESIZE - 1) or at bit 22              *)
(* (LARGEPAGESIZE - 1), so the pair keeps the full width of the word.      *)
(*                                                                         *)
(* The repository holds two definitions of AddressSpace::map and of        *)
(* adjustTableAddresses: the architecture-neutral walker of                *)
(* AddressSpace.cpp (with PageTableEntry.i386.cpp) and the i386 one of     *)
(* AddressSpace.i386.cpp.  A build links one of them (build.impl) and is   *)
(* either a VERBOSE build, where assert halts, or a release build, where   *)
(* assert compiles to nothing (build.verbose).  PageTableEntry::set reads  *)
(* an uninitialised local; what the compiled code finds there is a choice  *)
(* of the build as well (build.junk).                                      *)
(*                                                                         *)
(* Physical memory is the sparse function mem from <<frame, index>> (a     *)
(* 4-byte slot of a physical page) to the word stored there; a slot that   *)
(* was never written reads as 0.  A data access reaches the physical word  *)
(* its pointer names: a pointer into the kernel window is the high alias   *)
(* of pointer - delta, any other pointer is used as it is (VA = PA before  *)
(* paging, the identity map of the kernel image afterwards).               *)
(***************************************************************************)
EXTENDS Integers, Sequences, FiniteSets, TLC

VARIABLES
    build,   \* [impl, verbose, junk]: which map is linked, VERBOSE or
             \* release, what an uninitialised local holds
    mem,     \* physical memory: <<frame, index>> -> word
    cr3,     \* the translation-root register
    paging,  \* CR0.PG
    pc,      \* position of the boot processor
    run,     \* the map calls in progress or pending, the running one first
    step,    \* what the last iteration of map's loop did
    nmaps,   \* number of map calls made after init
    hist,    \* the map calls completed after init, oldest first
    ninits,  \* number of invocations of init
    nloads,  \* number of invocations of load after init
    cpu      \* the registers of the boot processor, where they are followed

vars ==
    <<build, mem, cr3, paging, pc, run, step, nmaps, hist, ninits, nloads,
      cpu>>

(***************************************************************************)
(* Bounds of the model.                                                    *)
(***************************************************************************)
\* calls (of map, init and load) made after init
MaxCalls == 2
\* a call of more map iterations than this is made as the first call only
MaxShortCall == 3
\* iterations after which a map call that has not ended is followed no further
MaxSteps == 1030
\* frames of the callers of enablePaging on the boot stack
MaxFrames == 3

(***************************************************************************)
(* 32-bit words.                                                           *)
(***************************************************************************)
HiSize == 2^20
LoSize == 2^12

Word(hi, lo) == <<hi, lo>>

Zero == Word(0, 0)

Add32(a, b) ==
    LET lo == a[2] + b[2]
        hi == a[1] + b[1] + (lo \div LoSize)
    IN  Word(hi % HiSize, lo % LoSize)

Sub32(a, b) ==
    LET lo == a[2] - b[2]
        borrow == IF lo < 0 THEN 1 ELSE 0
        hi == a[1] - b[1] - borrow
    IN  Word((hi + HiSize) % HiSize, (lo + LoSize) % LoSize)

GE32(a, b) == a[1] > b[1] \/ (a[1] = b[1] /\ a[2] >= b[2])

LT32(a, b) == ~GE32(a, b)

HasBit(lo, b) == (lo \div b) % 2 = 1

OrBit(x, y, b) == IF HasBit(x, b) \/ HasBit(y, b) THEN b ELSE 0

\* x | y on the low 12 bits of two words
OrLo(x, y) ==
    OrBit(x, y, 1) + OrBit(x, y, 2) + OrBit(x, y, 4) + OrBit(x, y, 8)
    + OrBit(x, y, 16) + OrBit(x, y, 32) + OrBit(x, y, 64) + OrBit(x, y, 128)
    + OrBit(x, y, 256) + OrBit(x, y, 512) + OrBit(x, y, 1024)
    + OrBit(x, y, 2048)

RECURSIVE OrN(_, _, _)
\* x | y on the low n bits
OrN(x, y, n) ==
    IF n = 0 \/ (x = 0 /\ y = 0) THEN 0
    ELSE (IF x % 2 = 1 \/ y % 2 = 1 THEN 1 ELSE 0)
         + 2 * OrN(x \div 2, y \div 2, n - 1)

\* a | b on 32-bit words
Or32(a, b) == Word(OrN(a[1], b[1], 20), OrLo(a[2], b[2]))

\* the invalid pointer (void*)-1
invalidPtr == Word(HiSize - 1, LoSize - 1)

valid(ptr) == ptr # invalidPtr

(***************************************************************************)
(* Page attributes (pageAttributes_e).                                     *)
(***************************************************************************)
PA_PRESENT == 1
PA_WRITABLE == 2
PA_RING0 == 4
PA_ACCESSED == 32
PA_DIRTY == 64
PA_4MBYTE == 128
PA_GLOBAL == 256

PAGESIZE == 4096
LARGEPAGESIZE == PAGESIZE * 1024

PageSizeWord == Word(1, 0)
LargePageSizeWord == Word(LARGEPAGESIZE \div PAGESIZE, 0)

(***************************************************************************)
(* Linker symbols.  The linker script is not part of the sources; the      *)
(* values are the canonical ones of the specification.                     *)
(***************************************************************************)
PHYSICAL_ADDR == Word(256, 0)
KERNEL_CODE == Word(786432, 0)
KERNEL_READ_WRITE == Word(786448, 0)
KERNEL_END == Word(786464, 0)

\* &AddressSpace::kernel, the statically reserved root table
KERNEL_OBJECT == Word(786448, 0)

delta == Sub32(KERNEL_CODE, PHYSICAL_ADDR)

(***************************************************************************)
(* PageTableEntry of kernel.hpp, i386 encoding (PageTableEntry.i386.cpp).  *)
(* An operation that asserts returns [ok, data]: ok is FALSE when a        *)
(* VERBOSE build stops in a failed assertion, and data is then unchanged.  *)
(***************************************************************************)
\* assertImpl: execution continues only when the expression holds
assertImpl(expression) == expression

\* the assert macro: assertImpl in a VERBOSE build, nothing otherwise
assert(expression) == build.verbose => assertImpl(expression)

PTE_isEmpty(data) == ~HasBit(data[2], PA_PRESENT)

PTE_getPhysicalAddress(data) == Word(data[1], 0)

PTE_setPhysicalAddress(data, addr) ==
    LET value == addr
        ok == assert(~PTE_isEmpty(data)) /\ assert(Word(value[1], 0) = value)
    IN  [ok |-> ok,
         data |-> IF ok THEN Or32(Word(0, data[2]), value) ELSE data]

\* The values the uninitialised local `value` of PageTableEntry::set can
\* hold when it is read in its own initialiser: the slot may happen to hold
\* the argument addr, zero, or a stale word.
StaleWord == Word(768, 262)

JunkKinds == {"addr", "zero", "stale"}

JunkWord(kind, addr) ==
    CASE kind = "addr" -> addr
      [] kind = "zero" -> Zero
      [] OTHER -> StaleWord

PTE_set(data, addr, write, user, global, level, junk) ==
    LET value0 == Or32(junk, Word(0, PA_PRESENT))
        ok == assert(PTE_isEmpty(data)) /\ assert(Word(value0[1], 0) = value0)
        value1 == IF global THEN Or32(value0, Word(0, PA_GLOBAL)) ELSE value0
        value2 == IF user THEN Or32(value1, Word(0, PA_RING0)) ELSE value1
        value3 == IF write THEN Or32(value2, Word(0, PA_WRITABLE)) ELSE value2
    IN  [ok |-> ok, data |-> IF ok THEN value3 ELSE data]

(***************************************************************************)
(* PageTableBase / PageDirEntry / PageTable of AddressSpace.i386.cpp.      *)
(***************************************************************************)
PTB_getAttributes(data) == Word(0, data[2])

PTB_getPhysicalAddress(data) == Word(data[1], 0)

PTB_isLargePage(data) == HasBit(data[2], PA_4MBYTE)

PTB_isEmpty(data) == data = Zero

PTB_set(ptr, attributes) == Or32(ptr, attributes)

aligned(w) == w[2] = 0

alignedlarge(ptr) == ptr[2] = 0 /\ ptr[1] % (LARGEPAGESIZE \div PAGESIZE) = 0

(***************************************************************************)
(* Translation (AddressSpace::getPhysicalAddress).                         *)
(***************************************************************************)
isPagingEnabled == paging

inKernel(ptr) == GE32(ptr, KERNEL_CODE)

\* getPhysicalAddressImpl with the comparison against KERNEL_CODE strict
getPhysicalAddressImpl_Strict(virtAddr) ==
    IF GE32(virtAddr, KERNEL_CODE) /\ virtAddr # KERNEL_CODE
    THEN Sub32(virtAddr, delta)
    ELSE IF ~isPagingEnabled
         THEN virtAddr
         ELSE invalidPtr

\* getPhysicalAddressImpl with the paging test before the kernel test
getPhysicalAddressImpl_PagingFirst(virtAddr) ==
    IF ~isPagingEnabled
    THEN virtAddr
    ELSE IF GE32(virtAddr, KERNEL_CODE)
         THEN Sub32(virtAddr, delta)
         ELSE invalidPtr

getPhysicalAddressImpl(virtAddr) ==
    IF GE32(virtAddr, KERNEL_CODE)
    THEN Sub32(virtAddr, delta)
    ELSE IF ~isPagingEnabled
         THEN virtAddr
         ELSE invalidPtr

getPhysicalAddress(virtAddr) == getPhysicalAddressImpl(virtAddr)

(***************************************************************************)
(* Physical memory.                                                        *)
(***************************************************************************)
\* the physical slot a data pointer reaches
Slot(ptr) ==
    LET p == IF isPagingEnabled /\ GE32(ptr, KERNEL_CODE)
             THEN Sub32(ptr, delta)
             ELSE ptr
    IN  <<p[1], p[2] \div 4>>

Rd(m, ptr) == IF Slot(ptr) \in DOMAIN m THEN m[Slot(ptr)] ELSE Zero

Wr(m, ptr, data) == (Slot(ptr) :> data) @@ m

\* &table[index] for a table of 4-byte entries
EntryPtr(table, index) == Add32(table, Word(0, 4 * index))

(***************************************************************************)
(* The root table the build places in the kernel image: a directory entry  *)
(* that describes the kernel's layout holds the VIRTUAL address of a       *)
(* statically reserved page table, every other entry is empty.             *)
(***************************************************************************)
LinkerTable ==
    (0 :> Word(786449, 0)) @@ (768 :> Word(786450, 0))
    @@ (832 :> Word(786451, 0)) @@ (767 :> Word(786452, 0))
    @@ (896 :> Word(786453, 0)) @@ (897 :> Word(786454, 0))

Layouts == {{0, 768}, {0, 767, 768, 832, 896, 897}, {768}}

LinkerAttributes == Word(0, OrLo(PA_PRESENT, PA_WRITABLE))

\* the physical address of the kernel's root table
KernelRoot == Sub32(KERNEL_OBJECT, delta)

Nascent(layout) ==
    [s \in {<<KernelRoot[1], i>> : i \in layout} |->
        Or32(LinkerTable[s[2]], LinkerAttributes)]

(***************************************************************************)
(* PageDirectory::getEntry: the directory entry of a virtual address when  *)
(* it is empty or a large page, the entry of its page table otherwise.     *)
(***************************************************************************)
DirIndex(virtAddr) == virtAddr[1] \div 1024

TableIndex(virtAddr) == virtAddr[1] % 1024

getEntryPtr(m, root, virtAddr) ==
    LET dir == EntryPtr(root, DirIndex(virtAddr))
    IN  IF PTB_isEmpty(Rd(m, dir)) \/ PTB_isLargePage(Rd(m, dir))
        THEN dir
        ELSE EntryPtr(PTB_getPhysicalAddress(Rd(m, dir)), TableIndex(virtAddr))

getEntry(m, root, virtAddr) == Rd(m, getEntryPtr(m, root, virtAddr))

(***************************************************************************)
(* A map call in progress: the arguments as the loop has advanced them.    *)
(*   this, virt, phys, size, write, user   the arguments                   *)
(*   n       iterations of the loop completed                              *)
(*   args    the arguments as passed                                       *)
(*   fresh   no entry of the range was populated when the call began       *)
(*   wrote   the slots written so far                                      *)
(*   memBefore  the memory when the call began                             *)
(***************************************************************************)
PagesOf(size) == size[1] + (IF size[2] = 0 THEN 0 ELSE 1)

Fresh(m, root, virt, size) ==
    \A k \in 0 .. PagesOf(size) - 1 :
        PTB_isEmpty(getEntry(m, root, Add32(virt, Word(k, 0))))

Call(this, virt, phys, size, write, user) ==
    [this |-> this, virt |-> virt, phys |-> phys, size |-> size,
     write |-> write, user |-> user, n |-> 0,
     args |-> <<virt, phys, size, write, user>>,
     fresh |-> Fresh(mem, this, virt, size), wrote |-> {},
     memBefore |-> mem]

\* The result of one iteration: halt or not, the memory afterwards, the
\* entry the iteration was about to write or wrote (NoSlot when it stopped
\* before it had one), the word that entry held before, and the page size
\* the loop advances by.
NoSlot == <<>>

Halted(m, entry, old) ==
    [halt |-> TRUE, m |-> m,
     slot |-> IF entry = NoSlot THEN NoSlot ELSE Slot(entry), old |-> old,
     pageSize |-> Zero]

Stepped(m, entry, old, data, pageSize) ==
    [halt |-> FALSE, m |-> Wr(m, entry, data), slot |-> Slot(entry),
     old |-> old, pageSize |-> pageSize]

(***************************************************************************)
(* AddressSpace::map of AddressSpace.cpp: one iteration of while (size>0). *)
(***************************************************************************)
ADDRESSBITSPERLEVEL == <<10, 10, 0>>

RECURSIVE Walk(_, _, _, _, _)
\* the inner loop while (*bits): [halt, entry, remainingBits, level]
Walk(m, table, addr, remainingBits, level) ==
    LET bits == ADDRESSBITSPERLEVEL[level + 1]
        rb == remainingBits - bits
        index == (addr[1] \div 2^(rb - 12)) % 2^bits
        entry == EntryPtr(table, index)
    IN  IF ADDRESSBITSPERLEVEL[level + 2] # 0
        THEN IF PTE_isEmpty(Rd(m, entry))
             THEN [halt |-> TRUE, entry |-> entry, remainingBits |-> rb,
                   level |-> level + 1]
             ELSE Walk(m, PTE_getPhysicalAddress(Rd(m, entry)), addr, rb,
                       level + 1)
        ELSE [halt |-> FALSE, entry |-> entry, remainingBits |-> rb,
              level |-> level + 1]

getPagingDirectory(this) == this

GenericStep(m, c) ==
    LET w == Walk(m, getPagingDirectory(c.this), c.virt, 32, 0)
        old == Rd(m, w.entry)
        r == PTE_set(old, c.phys, c.write, c.user, inKernel(c.virt), w.level,
                     JunkWord(build.junk, c.phys))
        pageSize == Word(2^(w.remainingBits - 12), 0)
    IN  IF w.halt THEN Halted(m, NoSlot, Zero)
        ELSE IF ~assert(valid(w.entry)) \/ ~assert(PTE_isEmpty(old))
        THEN Halted(m, w.entry, old)
        ELSE IF ~r.ok THEN Halted(m, w.entry, old)
        ELSE IF ~assert(GE32(c.size, pageSize))
        THEN Halted(Wr(m, w.entry, r.data), w.entry, old)
        ELSE Stepped(m, w.entry, old, r.data, pageSize)

(***************************************************************************)
(* AddressSpace::map of AddressSpace.i386.cpp: one iteration of            *)
(* while (size != 0).                                                      *)
(***************************************************************************)
Attr(write, user) ==
    Word(0, PA_PRESENT + (IF write THEN PA_WRITABLE ELSE 0)
            + (IF user THEN PA_RING0 ELSE 0))

I386Step(m, c) ==
    LET attr == Attr(c.write, c.user)
        cattr == IF GE32(c.virt, KERNEL_CODE)
                 THEN Or32(attr, Word(0, PA_GLOBAL))
                 ELSE attr
        dirEntry == EntryPtr(c.this, DirIndex(c.virt))
        dir == Rd(m, dirEntry)
        leaf == EntryPtr(PTB_getPhysicalAddress(dir), TableIndex(c.virt))
    IN  IF GE32(c.size, LargePageSizeWord) /\ alignedlarge(c.virt)
           /\ alignedlarge(c.phys)
        THEN IF ~assert(PTB_isEmpty(dir))
             THEN Halted(m, dirEntry, dir)
             ELSE Stepped(m, dirEntry, dir,
                          PTB_set(c.phys, Or32(cattr, Word(0, PA_4MBYTE))),
                          LargePageSizeWord)
        ELSE IF ~assert(~PTB_isEmpty(dir)) \/ ~assert(~PTB_isLargePage(dir))
             THEN Halted(m, NoSlot, Zero)
             ELSE Stepped(m, leaf, Rd(m, leaf), PTB_set(c.phys, cattr),
                          PageSizeWord)

\* assert(aligned(size) && aligned(virt) && aligned(phys)) on entry
I386EntryAssert(c) ==
    assert(aligned(c.size) /\ aligned(c.virt) /\ aligned(c.phys))

MapIteration(m, c) ==
    IF build.impl = "i386"
    THEN IF c.n = 0 /\ ~I386EntryAssert(c)
         THEN Halted(m, NoSlot, Zero)
         ELSE I386Step(m, c)
    ELSE GenericStep(m, c)

(***************************************************************************)
(* AddressSpace::adjustTableAddresses, both definitions: [halt, m].        *)
(***************************************************************************)
RootSlots(m, this) == {s \in DOMAIN m : s[1] = Slot(this)[1]}

AdjustGenericEntry(data) ==
    LET virt == PTE_getPhysicalAddress(data)
        phys == getPhysicalAddress(virt)
    IN  PTE_setPhysicalAddress(data, phys)

AdjustGeneric(m, this) ==
    LET todo == {s \in RootSlots(m, this) : ~PTE_isEmpty(m[s])}
        failing == {s \in todo : ~AdjustGenericEntry(m[s]).ok}
        done == {s \in todo : \A f \in failing : s[2] < f[2]}
    IN  [halt |-> failing # {},
         m |-> [s \in DOMAIN m |->
                   IF s \in done THEN AdjustGenericEntry(m[s]).data
                   ELSE m[s]]]

\* PageDirEntry::adjustAddress
adjustAddress(data) ==
    IF ~PTB_isEmpty(data)
    THEN LET virt == PTB_getPhysicalAddress(data)
             phys == getPhysicalAddress(virt)
         IN  PTB_set(phys, PTB_getAttributes(data))
    ELSE data

AdjustI386(m, this) ==
    [halt |-> FALSE,
     m |-> [s \in DOMAIN m |->
               IF s \in RootSlots(m, this) THEN adjustAddress(m[s])
               ELSE m[s]]]

\* adjustTableAddresses that rewrites nothing
adjustTableAddresses_Nothing(m, this) == [halt |-> FALSE, m |-> m]

adjustTableAddresses(m, this) ==
    IF build.impl = "i386" THEN AdjustI386(m, this) ELSE AdjustGeneric(m, this)

(***************************************************************************)
(* The arguments of the map calls made after init.                         *)
(***************************************************************************)
MapArgs ==
    { <<Word(851968, 0), Word(512, 0), Word(3, 0), TRUE, FALSE>>,
      <<Word(851968, 0), Word(768, 0), Word(1, 0), TRUE, FALSE>>,
      <<Word(851968, 0), Word(512, 0), Word(3, 0), FALSE, TRUE>>,
      <<Word(917504, 0), Word(262144, 0), Word(1024, 0), TRUE, FALSE>>,
      <<Word(917504, 0), Word(262144, 0), Word(1025, 0), TRUE, FALSE>>,
      <<Word(786431, 0), Word(1280, 0), Word(2, 0), TRUE, FALSE>>,
      <<Word(1024, 0), Word(2048, 0), Word(1024, 0), FALSE, TRUE>>,
      <<Word(917504, 0), Word(262144, 0), Word(1023, 0), TRUE, FALSE>>,
      <<Word(852991, 0), Word(1536, 0), Word(2, 0), TRUE, FALSE>>,
      <<Word(851968, 0), Word(512, 0), Zero, TRUE, FALSE>>,
      <<Word(1047552, 0), Word(524288, 0), Word(1024, 0), TRUE, FALSE>>,
      <<Word(1047552, 0), Word(524288, 0), Word(2048, 0), TRUE, FALSE>>,
      <<Word(851968, 0), Word(1048575, 0), Word(2, 0), TRUE, FALSE>>,
      <<Word(851968, 0), Word(512, 0), Word(1, 2048), TRUE, FALSE>> }

\* the iterations a call of these arguments makes when nothing stops it; a
\* size that is no multiple of the page size never reaches 0
Iterations(a) ==
    IF ~aligned(a[3])
    THEN MaxSteps
    ELSE IF build.impl = "i386" /\ alignedlarge(a[1]) /\ alignedlarge(a[2])
    THEN (a[3][1] \div 1024) + (a[3][1] % 1024)
    ELSE PagesOf(a[3])

Builds ==
    {b \in [impl : {"generic", "i386"}, verbose : BOOLEAN, junk : JunkKinds] :
        b.junk # "addr" => b.impl = "generic" /\ ~b.verbose}

NoStep == [valid |-> FALSE]

\* the registers are not followed
NoCpu == [valid |-> FALSE]

(***************************************************************************)
(* Initial state: the nascent kernel address space, paging off.            *)
(***************************************************************************)
Init ==
    /\ build \in Builds
    /\ mem \in {Nascent(l) : l \in Layouts}
    /\ cr3 = Zero
    /\ paging = FALSE
    /\ pc = "start"
    /\ run = <<>>
    /\ step = NoStep
    /\ nmaps = 0
    /\ hist = <<>>
    /\ ninits = 1
    /\ nloads = 0
    /\ cpu = NoCpu

(***************************************************************************)
(* AddressSpace::init, one action per call it makes.                       *)
(***************************************************************************)
\* AddressSpace& kernel = *getPhysicalAddress(&AddressSpace::kernel)
InitThis == getPhysicalAddress(KERNEL_OBJECT)

AdjustTableAddresses ==
    /\ pc = "start"
    /\ LET r == adjustTableAddresses(mem, InitThis)
       IN  /\ mem' = r.m
           /\ pc' = IF r.halt THEN "halted" ELSE "adjusted"
    /\ UNCHANGED <<cpu, build, ninits, nloads, cr3, paging, run, step, nmaps,
                   hist>>

\* mapKernel(virtAddr): the two map calls it makes
mapKernel(this, virtAddr) ==
    LET readOnlySize == Sub32(KERNEL_READ_WRITE, KERNEL_CODE)
        readWriteSize == Sub32(KERNEL_END, KERNEL_READ_WRITE)
    IN  << Call(this, virtAddr, PHYSICAL_ADDR, readOnlySize, FALSE, FALSE),
           Call(this, Add32(virtAddr, readOnlySize),
                Add32(PHYSICAL_ADDR, readOnlySize), readWriteSize, TRUE,
                FALSE) >>

MapKernelIdentity ==
    /\ pc = "adjusted"
    /\ run' = mapKernel(InitThis, PHYSICAL_ADDR)
    /\ pc' = "mapIdentity"
    /\ UNCHANGED <<cpu, build, ninits, nloads, mem, cr3, paging, step, nmaps,
                   hist>>

MapKernelHigh ==
    /\ pc = "identity"
    /\ run' = mapKernel(InitThis, KERNEL_CODE)
    /\ pc' = "mapHigh"
    /\ UNCHANGED <<cpu, build, ninits, nloads, mem, cr3, paging, step, nmaps,
                   hist>>

\* kernel.dump(): AddressSpace.cpp's dump is assert(false), the i386 one
\* only prints
Dump ==
    /\ pc = "high"
    /\ pc' = IF build.impl = "generic" /\ ~assert(FALSE) THEN "halted"
             ELSE "dumped"
    /\ UNCHANGED <<cpu, build, ninits, nloads, mem, cr3, paging, run, step,
                   nmaps, hist>>

\* AddressSpace::load: movl this, %cr3
load(this) == this

Load ==
    /\ pc = "dumped"
    /\ cr3' = load(InitThis)
    /\ pc' = "loaded"
    /\ UNCHANGED <<cpu, build, ninits, nloads, mem, paging, run, step, nmaps,
                   hist>>

EnablePaging ==
    /\ pc = "loaded"
    /\ paging' = TRUE
    /\ pc' = "paged"
    /\ UNCHANGED <<cpu, build, ninits, nloads, mem, cr3, run, step, nmaps,
                   hist>>

AdjustStack ==
    /\ pc = "paged"
    /\ pc' = "done"
    /\ UNCHANGED <<cpu, build, ninits, nloads, mem, cr3, paging, run, step,
                   nmaps, hist>>

\* the calls made after the first init returned
Calls == nmaps + (ninits - 1) + nloads

\* a further invocation of init; its map calls make more than MaxShortCall
\* iterations
InitAgain ==
    /\ pc = "done"
    /\ Calls = 0
    /\ Calls < MaxCalls
    /\ pc' = "start"
    /\ ninits' = ninits + 1
    /\ UNCHANGED <<cpu, build, nloads, mem, cr3, paging, run, step, nmaps,
                   hist>>

\* load invoked on AddressSpace::kernel by code that runs after init
Activate ==
    /\ pc = "done"
    /\ Calls < MaxCalls
    /\ cr3' = load(KERNEL_OBJECT)
    /\ nloads' = nloads + 1
    /\ UNCHANGED <<cpu, build, ninits, mem, paging, pc, run, step, nmaps,
                   hist>>

(***************************************************************************)
(* AddressSpace::map.                                                      *)
(***************************************************************************)
MapBegin ==
    /\ pc = "done"
    /\ Calls < MaxCalls
    /\ \E a \in MapArgs :
          /\ Calls = 0 \/ Iterations(a) <= MaxShortCall
          /\ run' = <<Call(KERNEL_OBJECT, a[1], a[2], a[3], a[4], a[5])>>
    /\ pc' = "mapUser"
    /\ nmaps' = nmaps + 1
    /\ UNCHANGED <<cpu, build, ninits, nloads, mem, cr3, paging, step, hist>>

Running == pc \in {"mapIdentity", "mapHigh", "mapUser"} /\ run # <<>>

\* the loop of map with the body run once before the first test
LoopContinues_DoWhile(c) == c.size # Zero \/ c.n = 0

\* while (size > 0), while (size != 0): size is unsigned
LoopContinues(c) == c.size # Zero

MapStep ==
    /\ Running
    /\ LoopContinues(Head(run))
    /\ Head(run).n < MaxSteps
    /\ LET c == Head(run)
           r == MapIteration(mem, c)
       IN  /\ mem' = r.m
           /\ step' = [valid |-> TRUE, before |-> c, slot |-> r.slot,
                       old |-> r.old, halt |-> r.halt]
           /\ IF r.halt
              THEN /\ pc' = "halted"
                   /\ UNCHANGED run
              ELSE /\ pc' = pc
                   /\ run' = << [c EXCEPT
                                   !.virt = Add32(c.virt, r.pageSize),
                                   !.phys = Add32(c.phys, r.pageSize),
                                   !.size = Sub32(c.size, r.pageSize),
                                   !.n = c.n + 1,
                                   !.wrote = c.wrote \cup {r.slot}] >>
                                \o Tail(run)
    /\ UNCHANGED <<cpu, build, ninits, nloads, cr3, paging, nmaps, hist>>

Returned(c) ==
    [args |-> c.args, fresh |-> c.fresh, wrote |-> c.wrote, n |-> c.n,
     memBefore |-> c.memBefore, memAfter |-> mem]

MapReturn ==
    /\ Running
    /\ ~LoopContinues(Head(run))
    /\ LET c == Head(run)
       IN  IF build.impl = "i386" /\ c.n = 0 /\ ~I386EntryAssert(c)
           THEN /\ pc' = "halted"
                /\ UNCHANGED <<run, hist>>
           ELSE /\ run' = Tail(run)
                /\ pc' = IF Tail(run) # <<>> THEN pc
                         ELSE CASE pc = "mapIdentity" -> "identity"
                                [] pc = "mapHigh" -> "high"
                                [] OTHER -> "done"
                /\ hist' = IF pc = "mapUser" THEN Append(hist, Returned(c))
                           ELSE hist
    /\ step' = NoStep
    /\ UNCHANGED <<cpu, build, ninits, nloads, mem, cr3, paging, nmaps>>

Next ==
    \/ AdjustTableAddresses
    \/ MapKernelIdentity
    \/ MapKernelHigh
    \/ Dump
    \/ Load
    \/ EnablePaging
    \/ AdjustStack
    \/ InitAgain
    \/ Activate
    \/ MapBegin
    \/ MapStep
    \/ MapReturn

Spec == Init /\ [][Next]_vars

(***************************************************************************)
(* PageTableEntry, armv7 encoding (PageTableEntry.rpi.cpp).                *)
(***************************************************************************)
PA_INVALID == 0
PA_COARSE == 1
PA_TYPE_MASK == 3

\* data & PA_TYPE_MASK
RPI_type(data) == data[2] % (PA_TYPE_MASK + 1)

\* w & 0xFFFFFC00
RPI_addressOf(w) == Word(w[1], w[2] - (w[2] % 1024))

RPI_isEmpty(data) == RPI_type(data) = PA_INVALID

RPI_getPhysicalAddress(data) ==
    IF RPI_type(data) = PA_COARSE THEN RPI_addressOf(data) ELSE invalidPtr

RPI_setPhysicalAddress(data, addr) ==
    LET value == addr
    IN  IF RPI_type(data) = PA_COARSE
        THEN LET ok == assert(RPI_addressOf(value) = value)
             IN  [ok |-> ok,
                  data |-> IF ok THEN Or32(Word(0, data[2] % 1024), value)
                           ELSE data]
        ELSE [ok |-> assert(FALSE), data |-> data]

RPI_set(data, addr, write, user, global, level) ==
    [ok |-> assert(FALSE), data |-> data]

(***************************************************************************)
(* One PageTableEntry object on its own, of either architecture: the       *)
(* entry word is the only memory, and each action is one call of a member  *)
(* function, recorded in step.                                             *)
(***************************************************************************)
EntryBuilds ==
    {b \in [arch : {"i386", "rpi"}, verbose : BOOLEAN, junk : JunkKinds] :
        b.junk # "addr" => b.arch = "i386" /\ ~b.verbose}

\* the place of the entry word in mem
EntrySlot == <<0, 0>>

EntryData == mem[EntrySlot]

\* entry words: empty, leaf and table encodings of both architectures
EntryWords ==
    {Word(hi, lo) : hi \in {0, 512, 1048575},
                    lo \in {0, 1, 2, 3, 7, 263, 1025, 3074, 4095}}

\* arguments of set and setPhysicalAddress: aligned to 4 KiB, to 1 KiB
\* only, and unaligned
EntryAddrs == {Zero, Word(512, 0), Word(513, 1024), Word(256, 1)}

Entry_isEmpty(data) ==
    IF build.arch = "rpi" THEN RPI_isEmpty(data) ELSE PTE_isEmpty(data)

Entry_getPhysicalAddress(data) ==
    IF build.arch = "rpi" THEN RPI_getPhysicalAddress(data)
    ELSE PTE_getPhysicalAddress(data)

Entry_setPhysicalAddress(data, addr) ==
    IF build.arch = "rpi" THEN RPI_setPhysicalAddress(data, addr)
    ELSE PTE_setPhysicalAddress(data, addr)

Entry_set(data, addr, write, user, global, level) ==
    IF build.arch = "rpi" THEN RPI_set(data, addr, write, user, global, level)
    ELSE PTE_set(data, addr, write, user, global, level,
                 JunkWord(build.junk, addr))

EntryInit ==
    /\ build \in EntryBuilds
    /\ mem \in {EntrySlot :> w : w \in EntryWords}
    /\ cr3 = Zero
    /\ paging = FALSE
    /\ pc = "entry"
    /\ run = <<>>
    /\ step = NoStep
    /\ nmaps = 0
    /\ hist = <<>>
    /\ ninits = 0
    /\ nloads = 0
    /\ cpu = NoCpu

\* what a call leaves behind: a failed assertion halts, the word unchanged
EntryCalled(r) ==
    /\ mem' = (EntrySlot :> r.data)
    /\ pc' = IF r.ok THEN "entry" ELSE "halted"
    /\ UNCHANGED <<cpu, build, ninits, nloads, cr3, paging, run, nmaps, hist>>

\* entry.isEmpty() and entry.getPhysicalAddress()
EntryQuery ==
    /\ pc = "entry"
    /\ step' = [valid |-> TRUE, op |-> "query", before |-> EntryData,
                ok |-> TRUE, empty |-> Entry_isEmpty(EntryData),
                phys |-> Entry_getPhysicalAddress(EntryData)]
    /\ EntryCalled([ok |-> TRUE, data |-> EntryData])

\* entry.set(addr, write, user, global, level)
EntrySet ==
    /\ pc = "entry"
    /\ \E addr \in EntryAddrs, f \in BOOLEAN \X BOOLEAN \X BOOLEAN,
          level \in {0, 1} :
        LET r == Entry_set(EntryData, addr, f[1], f[2], f[3], level)
        IN  /\ step' = [valid |-> TRUE, op |-> "set", before |-> EntryData,
                        ok |-> r.ok, addr |-> addr, write |-> f[1],
                        user |-> f[2], global |-> f[3]]
            /\ EntryCalled(r)

\* entry.setPhysicalAddress(addr)
EntrySetPhysicalAddress ==
    /\ pc = "entry"
    /\ \E addr \in EntryAddrs :
        LET r == Entry_setPhysicalAddress(EntryData, addr)
        IN  /\ step' = [valid |-> TRUE, op |-> "setPhysicalAddress",
                        before |-> EntryData, ok |-> r.ok, addr |-> addr]
            /\ EntryCalled(r)

EntryNext ==
    \/ EntryQuery
    \/ EntrySet
    \/ EntrySetPhysicalAddress

EntrySpec == EntryInit /\ [][EntryNext]_vars

(***************************************************************************)
(* AddressSpace::dump of AddressSpace.i386.cpp (VERBOSE build), one action *)
(* per iteration of its loops.  run holds the locals of dump, hist the     *)
(* lines printed so far.                                                   *)
(***************************************************************************)
\* PageDirectory::getEntrySize
getEntrySize(m, root, virtAddr) ==
    LET dir == Rd(m, EntryPtr(root, DirIndex(virtAddr)))
    IN  IF PTB_isEmpty(dir) \/ PTB_isLargePage(dir) THEN LargePageSizeWord
        ELSE PageSizeWord

\* getAttributes() & (~PA_4MBYTE), masking every attribute bit
DumpAttributes_MaskAll(data) == 0

\* getAttributes() & (~PA_4MBYTE)
DumpAttributes(data) ==
    IF HasBit(data[2], PA_4MBYTE) THEN data[2] - PA_4MBYTE ELSE data[2]

\* Page tables to print: the root table at KernelRoot and page tables in
\* frames 512 and 513.  Large pages and 4 KiB pages that continue each
\* other, a gap, and a run that ends with the address space.
DumpTable ==
    LET root == KernelRoot[1]
    IN  (<<root, 0>> :> Word(0, 131)) @@ (<<root, 1>> :> Word(1024, 131))
        @@ (<<root, 2>> :> Word(512, 3))
        @@ (<<512, 0>> :> Word(2048, 3)) @@ (<<512, 1>> :> Word(2049, 3))
        @@ (<<512, 2>> :> Word(2050, 3)) @@ (<<512, 3>> :> Word(2051, 7))
        @@ (<<512, 5>> :> Word(2053, 3)) @@ (<<512, 6>> :> Word(4000, 3))
        @@ (<<root, 1022>> :> Word(513, 3))
        @@ (<<513, 1022>> :> Word(3070, 259)) @@ (<<513, 1023>> :> Word(3071, 259))
        @@ (<<root, 1023>> :> Word(3072, 387))

\* the entries the processor may have marked: accessed, or accessed and
\* dirty
DumpTouchable ==
    (<<KernelRoot[1], 1>> :> PA_ACCESSED)
    @@ (<<512, 1>> :> PA_ACCESSED + PA_DIRTY)
    @@ (<<513, 1023>> :> PA_ACCESSED + PA_DIRTY)

\* the table, or none of it, with the bits of some entries set by the
\* processor
DumpTables ==
    {[s \in present |->
        IF s \in touched THEN Or32(DumpTable[s], Word(0, DumpTouchable[s]))
        ELSE DumpTable[s]] :
        present \in {{}, DOMAIN DumpTable},
        touched \in SUBSET DOMAIN DumpTouchable}

DumpInit ==
    /\ build = [impl |-> "i386", verbose |-> TRUE, junk |-> "addr"]
    /\ mem \in DumpTables
    /\ cr3 = Zero
    /\ paging = FALSE
    /\ pc = "dump"
    /\ run = <<[this |-> KernelRoot, startAddr |-> Zero, endAddr |-> Zero,
                phys |-> Zero, startPhys |-> Zero, startAttribs |-> 0]>>
    /\ step = NoStep
    /\ nmaps = 0
    /\ hist = <<>>
    /\ ninits = 0
    /\ nloads = 0
    /\ cpu = NoCpu

\* while (startAddr != nullptr) of the outer loop
DumpAgain(startAddr) == IF startAddr = Zero THEN "dumpEnd" ELSE "dump"

\* the start entry is empty: startAddr += getEntrySize(startAddr); continue
DumpSkip ==
    /\ pc = "dump"
    /\ LET c == Head(run)
           startAddr == Add32(c.startAddr,
                              getEntrySize(mem, c.this, c.startAddr))
       IN  /\ PTB_isEmpty(getEntry(mem, c.this, c.startAddr))
           /\ run' = <<[c EXCEPT !.startAddr = startAddr]>>
           /\ pc' = DumpAgain(startAddr)
    /\ UNCHANGED <<cpu, build, ninits, nloads, mem, cr3, paging, step, nmaps,
                   hist>>

\* the start entry is populated: the locals of a new run
DumpStart ==
    /\ pc = "dump"
    /\ LET c == Head(run)
           startEntry == getEntry(mem, c.this, c.startAddr)
       IN  /\ ~PTB_isEmpty(startEntry)
           /\ run' = <<[c EXCEPT !.endAddr = c.startAddr,
                                 !.phys = PTB_getPhysicalAddress(startEntry),
                                 !.startPhys = PTB_getPhysicalAddress(startEntry),
                                 !.startAttribs = DumpAttributes(startEntry)]>>
    /\ pc' = "dumpRun"
    /\ UNCHANGED <<cpu, build, ninits, nloads, mem, cr3, paging, step, nmaps,
                   hist>>

\* one iteration of the inner loop
DumpExtend ==
    /\ pc = "dumpRun"
    /\ LET c == Head(run)
           size == getEntrySize(mem, c.this, c.endAddr)
           phys == Add32(c.phys, size)
           endAddr == Add32(c.endAddr, size)
           endEntry == getEntry(mem, c.this, endAddr)
           break == \/ PTB_getPhysicalAddress(endEntry) # phys
                    \/ DumpAttributes(endEntry) # c.startAttribs
       IN  /\ run' = <<[c EXCEPT !.phys = phys, !.endAddr = endAddr]>>
           /\ pc' = IF break \/ endAddr = Zero THEN "dumpPrint" ELSE "dumpRun"
    /\ UNCHANGED <<cpu, build, ninits, nloads, mem, cr3, paging, step, nmaps,
                   hist>>

\* printf of the run; startAddr = endAddr
DumpPrint ==
    /\ pc = "dumpPrint"
    /\ LET c == Head(run)
       IN  /\ hist' = Append(hist, [start |-> c.startAddr, end |-> c.endAddr,
                                    phys |-> c.startPhys,
                                    attribs |-> c.startAttribs])
           /\ run' = <<[c EXCEPT !.startAddr = c.endAddr]>>
           /\ pc' = DumpAgain(c.endAddr)
    /\ UNCHANGED <<cpu, build, ninits, nloads, mem, cr3, paging, step, nmaps>>

DumpNext ==
    \/ DumpSkip
    \/ DumpStart
    \/ DumpExtend
    \/ DumpPrint

\* dump is sequential code: it takes its next step as long as it has one
DumpSpec == DumpInit /\ [][DumpNext]_vars /\ WF_vars(DumpNext)

(***************************************************************************)
(* AddressSpace::init with the registers and the stack of the boot         *)
(* processor followed: AddressSpace::enablePaging of AddressSpace.i386.cpp *)
(* one action per asm block and per iteration of its loop.  The boot stack *)
(* lies in the read-write part of the kernel image and ends at STACK; a    *)
(* frame is the saved frame pointer with the return address in the word    *)
(* above it.                                                               *)
(***************************************************************************)
\* &STACK, a symbol of the kernel image
STACK == Word(786463, 2048)

\* the frame 16 * j bytes below the physical end of the stack
FrameAt(j) == Sub32(Sub32(STACK, delta), Word(0, 16 * j))

\* The stack enablePaging is called on: the frames of init and of its
\* callers at the places js, each linked to the next one above it and
\* holding a return address into the code at its physical address, and the
\* link of the topmost frame, last.
BootStack(js, last) ==
    LET link(j) == IF \E i \in js : i < j
                   THEN FrameAt(CHOOSE i \in js :
                                    i < j /\ \A k \in js : k < j => k <= i)
                   ELSE last
        at(j) == <<FrameAt(j)[1], FrameAt(j)[2] \div 4>>
        slots == {<<at(j)[1], at(j)[2] + o>> : j \in js, o \in {0, 1}}
    IN  [s \in slots |->
            LET j == CHOOSE i \in js : s[2] \in {at(i)[2], at(i)[2] + 1}
            IN  IF s = at(j) THEN link(j)
                ELSE Add32(PHYSICAL_ADDR, Word(0, 64 * j))]

\* init runs in the lowest of the frames, at physical addresses
EnableInit ==
    /\ build \in Builds
    /\ \E l \in Layouts, js \in SUBSET (1 .. MaxFrames),
          last \in {Sub32(STACK, delta),
                    Add32(Sub32(STACK, delta), Word(0, 16))} :
        /\ js # {}
        /\ mem = Nascent(l) @@ BootStack(js, last)
        /\ cpu = [valid |-> TRUE, high |-> FALSE, segments |-> FALSE,
                  ebp |-> FrameAt(CHOOSE j \in js : \A i \in js : i <= j),
                  esp |-> Sub32(FrameAt(MaxFrames), Word(0, 8)),
                  stack |-> Zero]
    /\ cr3 = Zero
    /\ paging = FALSE
    /\ pc = "start"
    /\ run = <<>>
    /\ step = NoStep
    /\ nmaps = 0
    /\ hist = <<>>
    /\ ninits = 1
    /\ nloads = 0

\* the call of enablePaging pushes the return address and the frame
\* pointer; movl %cr0, %eax; orl $0x80010000, %eax; movl %eax, %cr0
EnableMMU ==
    /\ pc = "loaded"
    /\ LET frame == Sub32(cpu.esp, Word(0, 8))
       IN  /\ mem' = Wr(Wr(mem, frame, cpu.ebp), Add32(frame, Word(0, 4)),
                        Add32(PHYSICAL_ADDR, Word(0, 32)))
           /\ cpu' = [cpu EXCEPT !.ebp = frame, !.esp = frame]
    /\ paging' = TRUE
    /\ pc' = "mmu"
    /\ UNCHANGED <<build, ninits, nloads, cr3, run, step, nmaps, hist>>

\* enablePaging without the far jump
FarJump_Skipped ==
    /\ pc = "mmu"
    /\ pc' = "jumped"
    /\ UNCHANGED <<cpu, build, ninits, nloads, mem, cr3, paging, run, step,
                   nmaps, hist>>

\* lgdt; ljmpl $010, $_loadCs: execution goes on at the high address
FarJump ==
    /\ pc = "mmu"
    /\ cpu' = [cpu EXCEPT !.high = TRUE]
    /\ pc' = "jumped"
    /\ UNCHANGED <<build, ninits, nloads, mem, cr3, paging, run, step, nmaps,
                   hist>>

\* the segment registers are loaded; addl %eax, %esp; addl %eax, %ebp with
\* delta in eax; movl %ebp, %eax into stack
RelocateStack ==
    /\ pc = "jumped"
    /\ cpu' = [cpu EXCEPT !.segments = TRUE,
                          !.esp = Add32(cpu.esp, delta),
                          !.ebp = Add32(cpu.ebp, delta),
                          !.stack = Add32(cpu.ebp, delta)]
    /\ pc' = "fixup"
    /\ UNCHANGED <<build, ninits, nloads, mem, cr3, paging, run, step, nmaps,
                   hist>>

\* one iteration of while ((void*)stack < &STACK)
FixupStep ==
    /\ pc = "fixup"
    /\ LT32(cpu.stack, STACK)
    /\ LET value == Add32(Rd(mem, cpu.stack), delta)
           m == Wr(mem, cpu.stack, value)
           programCounter == Add32(value, Word(0, 4))
       IN  /\ mem' = Wr(m, programCounter, Add32(Rd(m, programCounter), delta))
           /\ cpu' = [cpu EXCEPT !.stack = value]
    /\ UNCHANGED <<build, ninits, nloads, cr3, paging, pc, run, step, nmaps,
                   hist>>

\* the loop has ended: enablePaging returns to the address its frame holds
EnableReturn ==
    /\ pc = "fixup"
    /\ ~LT32(cpu.stack, STACK)
    /\ cpu' = [cpu EXCEPT
                  !.high = GE32(Rd(mem, Add32(cpu.ebp, Word(0, 4))),
                                KERNEL_CODE),
                  !.ebp = Rd(mem, cpu.ebp),
                  !.esp = Add32(cpu.ebp, Word(0, 8))]
    /\ pc' = "paged"
    /\ UNCHANGED <<build, ninits, nloads, mem, cr3, paging, run, step, nmaps,
                   hist>>

EnableNext ==
    \/ AdjustTableAddresses
    \/ MapKernelIdentity
    \/ MapKernelHigh
    \/ Dump
    \/ Load
    \/ MapStep
    \/ MapReturn
    \/ EnableMMU
    \/ FarJump
    \/ RelocateStack
    \/ FixupStep
    \/ EnableReturn
    \/ AdjustStack

EnableSpec == EnableInit /\ [][EnableNext]_vars

(***************************************************************************)
(* Vocabulary of the properties.                                           *)
(***************************************************************************)
\* init has returned
InitRan ==
    pc \in {"done", "mapUser"} \/ (pc = "halted" /\ nmaps > 0) \/ ninits > 1

KernelPages == Sub32(KERNEL_END, KERNEL_CODE)[1]

InWindow(v) == GE32(v, KERNEL_CODE) /\ LT32(v, KERNEL_END)

\* addresses of the statically linked kernel window: every page, at its
\* first byte, an inner word and its last byte
WindowProbes ==
    {Add32(KERNEL_CODE, Word(k, o)) : k \in 0 .. KernelPages - 1,
                                      o \in {0, 4, LoSize - 1}}

\* addresses outside the window, below and above it
OutsideProbes ==
    { Zero, PHYSICAL_ADDR, Word(1024, 0), Word(786431, 0),
      Word(786431, LoSize - 1), KERNEL_END, Word(851968, 0),
      Word(851970, 0), Word(917504, 0), Word(917795, 1110),
      Word(HiSize - 1, 0) }

Probes == WindowProbes \cup OutsideProbes

\* the entry the kernel address space holds for a virtual address
KernelEntry(v) == getEntry(mem, KernelRoot, v)

Populated(data) == ~PTE_isEmpty(data)

LastCall == hist[Len(hist)]

AlignedArgs(a) == aligned(a[1]) /\ aligned(a[2]) /\ aligned(a[3])

\* C1: in paging-on mode, after map(virt, phys, size, w, u) with aligned
\* arguments, size > 0 and no entry of the range populated beforehand,
\* translate(v) = phys + (v - virt) for every page-aligned v of the range.
C1_MapThenTranslate ==
    (pc = "done" /\ paging /\ hist # <<>>) =>
        LET a == LastCall.args
        IN  (LastCall.fresh /\ AlignedArgs(a) /\ a[3] # Zero) =>
                \A k \in 0 .. PagesOf(a[3]) - 1 :
                    getPhysicalAddress(Add32(a[1], Word(k, 0)))
                        = Add32(a[2], Word(k, 0))

\* C2: once init has run, translate(v) = v - (KERNEL_CODE - PHYSICAL_ADDR)
\* for every v of the statically linked kernel window, whatever the page
\* tables contain.
C2_KernelWindowShortcut ==
    InitRan => \A v \in WindowProbes : getPhysicalAddress(v) = Sub32(v, delta)

\* C2 witness: init has run and the tables map the first kernel page to a
\* page other than PHYSICAL_ADDR, so the tables and the shortcut disagree.
C2_Witness ==
    /\ InitRan
    /\ Populated(KernelEntry(KERNEL_CODE))
    /\ PTB_getPhysicalAddress(KernelEntry(KERNEL_CODE)) # PHYSICAL_ADDR

\* C3: with paging enabled, translate(v) is the invalid pointer for every v
\* outside the kernel window that no map call has mapped, unmapped
\* addresses at or above KERNEL_END included.
C3_UnmappedIsInvalid ==
    paging =>
        \A v \in OutsideProbes :
            ~Populated(KernelEntry(v)) => getPhysicalAddress(v) = invalidPtr

\* C4 as claimed: while paging is not enabled, translate(v) = v for every v.
C4_PagingOffIdentityEverywhere ==
    ~paging => \A v \in Probes : getPhysicalAddress(v) = v

\* C4 as amended: while paging is not enabled, translate(v) = v for every
\* v below KERNEL_CODE, and translate(v) = v - delta for every v at or above
\* KERNEL_CODE: the kernel-window rule is applied before the paging-off rule.
C4_PagingOffIdentityBelowKernel ==
    ~paging =>
        \A v \in Probes :
            getPhysicalAddress(v)
                = IF GE32(v, KERNEL_CODE) THEN Sub32(v, delta) ELSE v

\* C4 witness: paging is still off after the kernel has been mapped and the
\* translation root loaded.
C4_Witness == ~paging /\ pc = "loaded"

\* C5: after init, the leaf entry of every page of [KERNEL_CODE,
\* KERNEL_READ_WRITE) is populated, points at PHYSICAL_ADDR + (page -
\* KERNEL_CODE), is not writable and is global; that of every page of
\* [KERNEL_READ_WRITE, KERNEL_END) likewise, but writable.
C5_KernelHighMap ==
    (pc = "done" /\ nmaps = 0) =>
        \A k \in 0 .. KernelPages - 1 :
            LET page == Add32(KERNEL_CODE, Word(k, 0))
                e == KernelEntry(page)
            IN  /\ Populated(e)
                /\ PTB_getPhysicalAddress(e) = Add32(PHYSICAL_ADDR, Word(k, 0))
                /\ HasBit(e[2], PA_WRITABLE) <=> GE32(page, KERNEL_READ_WRITE)
                /\ HasBit(e[2], PA_GLOBAL)

\* the word a slot of physical memory holds
EntryAt(slot) == IF slot \in DOMAIN mem THEN mem[slot] ELSE Zero

\* the slot lies in the kernel's root table
InRoot(slot) == slot[1] = KernelRoot[1]

\* the entry differs from the one the iteration was asked to install
Conflicting(old, c) ==
    \/ PTB_getPhysicalAddress(old) # c.phys
    \/ HasBit(old[2], PA_WRITABLE) # c.write
    \/ HasBit(old[2], PA_RING0) # c.user

\* the iteration qualifies for a large page
LargeStep(c) ==
    GE32(c.size, LargePageSizeWord) /\ alignedlarge(c.virt)
        /\ alignedlarge(c.phys)

\* C6: map never silently overwrites a populated leaf: an iteration that
\* meets an entry populated with another address or other attributes stops
\* the call and leaves the entry as it was, on the small-page and on the
\* large-page path.
C6_NoSilentOverwrite ==
    (step.valid /\ step.slot # NoSlot /\ Populated(step.old)
        /\ Conflicting(step.old, step.before)) =>
            step.halt /\ EntryAt(step.slot) = step.old

\* the arguments of the second map call after init, running or returned
SecondArgs == IF Len(hist) >= 2 THEN hist[2].args ELSE Head(run).args

\* C7: repeating an identical map call on a range the first call mapped
\* succeeds and leaves every page-table entry as the first call left it.
C7_RepeatIsIdempotent ==
    (nmaps = 2 /\ Len(hist) >= 1 /\ pc \in {"mapUser", "halted", "done"}
        /\ SecondArgs = hist[1].args) =>
            /\ pc # "halted"
            /\ pc = "done" => mem = hist[1].memAfter

\* C8: when the virtual address passed to map is already mapped, map does
\* not fail and the entry afterwards carries the requested writable and
\* user attributes.
C8_RemapAdjustsAttributes ==
    (step.valid /\ step.slot # NoSlot /\ Populated(step.old)) =>
        /\ ~step.halt
        /\ HasBit(EntryAt(step.slot)[2], PA_WRITABLE) <=> step.before.write
        /\ HasBit(EntryAt(step.slot)[2], PA_RING0) <=> step.before.user

\* C9: an entry written by map is global if and only if its virtual
\* address is at or above KERNEL_CODE.
C9_GlobalIffKernel ==
    (step.valid /\ ~step.halt) =>
        (HasBit(EntryAt(step.slot)[2], PA_GLOBAL)
            <=> GE32(step.before.virt, KERNEL_CODE))

\* C10: each iteration of map installs a 4 MiB leaf in the root table if
\* and only if virt and phys are 4 MiB aligned and at least 4 MiB remain,
\* and one 4 KiB leaf otherwise; an iteration that qualifies for a large
\* page and finds the root entry empty installs it without a second-level
\* table, so a call of exactly 4 MiB is one iteration, one of 4 MiB + 4 KiB
\* two, and one of 4 MiB - 4 KiB 1023.
C10_LargePageIffAligned ==
    /\ step.valid =>
          LET c == step.before
              rootEntry == Rd(mem, EntryPtr(c.this, DirIndex(c.virt)))
          IN  /\ ~step.halt =>
                    (LargeStep(c) <=>
                        /\ InRoot(step.slot)
                        /\ HasBit(EntryAt(step.slot)[2], PA_4MBYTE))
              /\ (step.halt /\ LargeStep(c)) => ~PTB_isEmpty(rootEntry)
    /\ \A i \in 1 .. Len(hist) :
          LET a == hist[i].args
          IN  (alignedlarge(a[1]) /\ alignedlarge(a[2])) =>
                  hist[i].n = (a[3][1] \div 1024) + (a[3][1] % 1024)

\* the physical address the tables of the kernel address space give a
\* virtual address: the walk the memory management unit makes
TableTranslate(m, root, v) ==
    LET dir == Rd(m, EntryPtr(root, DirIndex(v)))
        e == getEntry(m, root, v)
    IN  IF PTE_isEmpty(e) THEN invalidPtr
        ELSE IF PTB_isLargePage(dir)
        THEN Word(dir[1] - (dir[1] % 1024) + TableIndex(v), v[2])
        ELSE Word(e[1], v[2])

\* the pages a call had mapped when its iteration began
PrefixPages(c) == Sub32(c.virt, c.args[1])[1]

\* page k of the prefix is mapped as the call was asked to map it
PrefixIntact(c, k) ==
    LET v == Add32(c.args[1], Word(k, 0))
        e == KernelEntry(v)
    IN  /\ TableTranslate(mem, KernelRoot, v) = Add32(c.args[2], Word(k, 0))
        /\ HasBit(e[2], PA_WRITABLE) <=> c.write
        /\ HasBit(e[2], PA_RING0) <=> c.user

\* C11: when map fails part-way through a range, every page of the prefix
\* mapped before the failure keeps its address and attributes, the failing
\* iteration writes no entry, and the failure is surfaced to the caller:
\* the call returns instead of stopping the processor.
C11_PartialFailureSurfaced ==
    (step.valid /\ step.halt /\ step.before.n > 0) =>
        /\ \A k \in 0 .. PrefixPages(step.before) - 1 :
              PrefixIntact(step.before, k)
        /\ step.slot # NoSlot => EntryAt(step.slot) = step.old
        /\ pc # "halted"

WrapsAround(base, size) ==
    size # Zero /\ Add32(base, size) # Zero /\ LT32(Add32(base, size), base)

\* base + size is exactly 2^32
EndsAtTop(base, size) == size # Zero /\ Add32(base, size) = Zero

\* C13: map does not wrap silently: no iteration writes an entry for an
\* address below the start of the range, a range that ends exactly at 2^32
\* is mapped completely, and a call whose virt + size or phys + size
\* exceeds 2^32 does not complete as a successful call.
C13_NoSilentWrap ==
    /\ (step.valid /\ ~step.halt) =>
          /\ GE32(step.before.virt, step.before.args[1])
          /\ GE32(step.before.phys, step.before.args[2])
    /\ \A i \in 1 .. Len(hist) :
          LET a == hist[i].args
          IN  /\ EndsAtTop(a[1], a[3]) => hist[i].n = Iterations(a)
              /\ ~WrapsAround(a[1], a[3])
              /\ ~WrapsAround(a[2], a[3])

\* no populated entry of the kernel's root table holds an address of the
\* kernel window, the placeholder the linker put there
NoPlaceholder ==
    \A s \in RootSlots(mem, KernelRoot) :
        Populated(mem[s]) => LT32(PTB_getPhysicalAddress(mem[s]), KERNEL_CODE)

\* init is running for the second time or later
InitRepeated ==
    ninits > 1 /\ pc \notin {"done", "mapUser"} /\ ~(pc = "halted" /\ nmaps > 0)

\* C14: the bootstrap is performed exactly once: the kernel space is never
\* loaded while a root entry holds a placeholder address, and a second
\* invocation of init rewrites no page-table entry, loads nothing and does
\* not stop the processor.
C14_BootstrapOnce ==
    /\ [](pc \in {"loaded", "paged"} => NoPlaceholder)
    /\ [][InitRepeated =>
             mem' = mem /\ cr3' = cr3 /\ pc' # "halted"]_vars

\* C15: load writes the physical address of the root table into the
\* translation-root register, whether it is invoked through the physical
\* address of the object (init, paging off) or through its high virtual
\* address (AddressSpace::kernel, paging on).
C15_LoadsPhysicalRoot ==
    (nloads > 0 \/ pc \in {"loaded", "paged", "done"}) => cr3 = KernelRoot

\* C16: map is finite: whatever the arguments and the build, a call makes
\* no more iterations, and so no more entry writes, than size / page size
\* rounded up.
C16_MapIsFinite ==
    (Running /\ pc = "mapUser") =>
        Head(run).n <= PagesOf(Head(run).args[3])

\* the alignment an entry's address field can hold on the architecture
EntryAligned(addr) ==
    IF build.arch = "rpi" THEN RPI_addressOf(addr) = addr ELSE aligned(addr)

\* the attribute bits of an entry word on the architecture
EntryAttributes(data) ==
    IF build.arch = "rpi" THEN data[2] % 1024 ELSE data[2]

\* a call of op has been made on the entry
EntryOp(op) == pc \in {"entry", "halted"} /\ step.valid /\ step.op = op

\* C17: set on an empty entry with an aligned address leaves the entry
\* non-empty, with getPhysicalAddress equal to the address and the
\* writable, user and global bits set exactly as the arguments say; set on
\* a non-empty entry fails its precondition check and leaves the entry
\* unchanged.
C17_SetInitialisesEmptyEntry ==
    EntryOp("set") =>
        /\ (Entry_isEmpty(step.before) /\ EntryAligned(step.addr)) =>
            /\ step.ok
            /\ ~Entry_isEmpty(EntryData)
            /\ Entry_getPhysicalAddress(EntryData) = step.addr
            /\ build.arch = "i386" =>
                /\ HasBit(EntryData[2], PA_WRITABLE) <=> step.write
                /\ HasBit(EntryData[2], PA_RING0) <=> step.user
                /\ HasBit(EntryData[2], PA_GLOBAL) <=> step.global
        /\ ~Entry_isEmpty(step.before) =>
            ~step.ok /\ EntryData = step.before

\* C18: setPhysicalAddress on a non-empty entry with an aligned address
\* changes the address and nothing else; on an empty entry or with an
\* unaligned address it fails its precondition check and leaves the entry
\* unchanged.
C18_SetPhysicalAddressOnlyAddress ==
    EntryOp("setPhysicalAddress") =>
        /\ (~Entry_isEmpty(step.before) /\ EntryAligned(step.addr)) =>
            /\ step.ok
            /\ Entry_getPhysicalAddress(EntryData) = step.addr
            /\ EntryAttributes(EntryData) = EntryAttributes(step.before)
        /\ (Entry_isEmpty(step.before) \/ ~EntryAligned(step.addr)) =>
            ~step.ok /\ EntryData = step.before

\* C19: on both architectures an empty entry reports the invalid sentinel
\* as its physical address, and a non-empty entry reports an aligned
\* address that is not the sentinel.
C19_EmptyIffInvalidAddress ==
    EntryOp("query") =>
        /\ step.empty => step.phys = invalidPtr
        /\ ~step.empty => EntryAligned(step.phys) /\ valid(step.phys)

\* the pages looked at: every page of the directory entries that DumpTable
\* uses, the first and the last page of every other one
DumpPages ==
    {Word(d * 1024 + t, 0) : d \in 0 .. 1023, t \in {0, 1023}}
    \cup {Word(s[2] * 1024 + t, 0) :
            s \in {x \in DOMAIN DumpTable : x[1] = KernelRoot[1]},
            t \in 0 .. 1023}

\* the printed lines whose range holds the page v
Covering(v) ==
    {i \in 1 .. Len(hist) :
        /\ GE32(v, hist[i].start)
        /\ hist[i].end = Zero \/ LT32(v, hist[i].end)}

\* attribute bits without those of the set bits
Unmasked(lo, bits) ==
    lo - ((IF PA_ACCESSED \in bits /\ HasBit(lo, PA_ACCESSED)
           THEN PA_ACCESSED ELSE 0)
          + (IF PA_DIRTY \in bits /\ HasBit(lo, PA_DIRTY)
             THEN PA_DIRTY ELSE 0)
          + (IF PA_4MBYTE \in bits /\ HasBit(lo, PA_4MBYTE)
             THEN PA_4MBYTE ELSE 0))

\* What dump has printed when it returns: the lines ascend and do not
\* overlap, each starts with the physical address of its first entry, a
\* populated page lies in exactly one line and an empty page in none, and
\* two populated entries that follow each other share a line exactly when
\* the second continues the physical range of the first and their
\* attributes agree outside the masked bits.
DumpContract(masked) ==
    pc = "dumpEnd" =>
        /\ \A i \in 1 .. Len(hist) :
            /\ hist[i].end = Zero \/ LT32(hist[i].start, hist[i].end)
            /\ hist[i].phys =
                PTB_getPhysicalAddress(getEntry(mem, KernelRoot, hist[i].start))
            /\ i < Len(hist) =>
                hist[i].end # Zero /\ GE32(hist[i + 1].start, hist[i].end)
        /\ \A v \in DumpPages :
            LET e == getEntry(mem, KernelRoot, v)
                size == getEntrySize(mem, KernelRoot, v)
                next == Add32(v, size)
                e2 == getEntry(mem, KernelRoot, next)
            IN  /\ Cardinality(Covering(v)) = IF PTB_isEmpty(e) THEN 0 ELSE 1
                /\ ( /\ size = LargePageSizeWord => alignedlarge(v)
                     /\ next # Zero
                     /\ ~PTB_isEmpty(e)
                     /\ ~PTB_isEmpty(e2) ) =>
                    (Covering(v) = Covering(next) <=>
                        /\ PTB_getPhysicalAddress(e2)
                            = Add32(PTB_getPhysicalAddress(e), size)
                        /\ Unmasked(e[2], masked) = Unmasked(e2[2], masked))

\* C20 as stated: dump prints one line per maximal run of populated
\* entries in ascending order, where entries that follow each other are in
\* one run exactly when their physical addresses are contiguous and their
\* attributes identical after masking dirty, accessed and large-page; each
\* populated page is in exactly one line, no empty page in any, and dump
\* terminates.
C20_DumpCoalescesRuns ==
    /\ []DumpContract({PA_DIRTY, PA_ACCESSED, PA_4MBYTE})
    /\ <>(pc = "dumpEnd")

\* C20 amended: the same, with the attributes compared after masking the
\* large-page bit only, so that a difference in dirty or accessed starts a
\* new line.
C20_DumpCoalescesRunsMaskingLargePage ==
    /\ []DumpContract({PA_4MBYTE})
    /\ <>(pc = "dumpEnd")

\* C20 witness: dump has returned after printing two lines that continue
\* each other in virtual and physical addresses and differ in the accessed
\* or dirty bit alone.
C20_Witness ==
    /\ pc = "dumpEnd"
    /\ \E i \in 1 .. Len(hist) - 1 :
        /\ hist[i + 1].start = hist[i].end
        /\ hist[i + 1].phys
            = Add32(hist[i].phys, Sub32(hist[i].end, hist[i].start))
        /\ hist[i + 1].attribs # hist[i].attribs
        /\ Unmasked(hist[i + 1].attribs, {PA_DIRTY, PA_ACCESSED})
            = Unmasked(hist[i].attribs, {PA_DIRTY, PA_ACCESSED})

\* C23: adjustTableAddresses, run by the first init with paging off on the
\* root table the linker produced, replaces the address of every non-empty
\* root entry by that address minus delta, keeps its attribute bits, leaves
\* every empty root entry unchanged, and every non-empty root entry then
\* holds a physical address inside the kernel image.
C23_AdjustSubtractsDelta ==
    [][(pc = "start" /\ ninits = 1 /\ ~paging) =>
        /\ pc' = "adjusted"
        /\ \A i \in 0 .. 1023 :
            LET slot == <<KernelRoot[1], i>>
                before == IF slot \in DOMAIN mem THEN mem[slot] ELSE Zero
                after == IF slot \in DOMAIN mem' THEN mem'[slot] ELSE Zero
                address == Word(after[1], 0)
            IN  IF before = Zero THEN after = Zero
                ELSE /\ address = Sub32(Word(before[1], 0), delta)
                     /\ after[2] = before[2]
                     /\ GE32(address, PHYSICAL_ADDR)
                     /\ LT32(address, Add32(PHYSICAL_ADDR,
                                            Sub32(KERNEL_END, KERNEL_CODE)))]_vars

\* C23 witness: the first init has rewritten a root table with a non-empty
\* entry, which now holds an address below the kernel window.
C23_Witness ==
    /\ pc = "adjusted"
    /\ ninits = 1
    /\ \E s \in RootSlots(mem, KernelRoot) :
        Populated(mem[s]) /\ LT32(PTB_getPhysicalAddress(mem[s]), KERNEL_CODE)

\* C24: once the first init has installed the identity map, every page of
\* the kernel image [PHYSICAL_ADDR, PHYSICAL_ADDR + (KERNEL_END -
\* KERNEL_CODE)) is mapped to itself, writable and not user-accessible, the
\* pages of the read-only part included.
C24_IdentityMapWritable ==
    (pc = "identity" /\ ninits = 1) =>
        \A k \in 0 .. KernelPages - 1 :
            LET v == Add32(PHYSICAL_ADDR, Word(k, 0))
            IN  /\ Populated(KernelEntry(v))
                /\ PTE_getPhysicalAddress(KernelEntry(v)) = v
                /\ HasBit(KernelEntry(v)[2], PA_WRITABLE)
                /\ ~HasBit(KernelEntry(v)[2], PA_RING0)

\* C22: from the load of the translation root to the end of the jump to the
\* high address, every page that can hold the executing kernel instruction
\* (a page of the code of the kernel image) is mapped in the kernel tables
\* at its physical address and at its physical address plus delta, and both
\* entries resolve to that physical page.
C22_InstructionPageMappedTwice ==
    (pc = "loaded" /\ ninits = 1) =>
        \A k \in 0 .. Sub32(KERNEL_READ_WRITE, KERNEL_CODE)[1] - 1 :
            LET page == Add32(PHYSICAL_ADDR, Word(k, 0))
            IN  /\ TableTranslate(mem, KernelRoot, page) = page
                /\ TableTranslate(mem, KernelRoot, Add32(page, delta)) = page

\* C26: when a map call of the first init meets an empty root entry where
\* it needs a page table, the processor halts at that point in every build:
\* no page-table entry is written, and since a halted processor takes no
\* further step the root is never loaded and the MMU never enabled.
C26_BootstrapFailureHalts ==
    [][(/\ pc \in {"mapIdentity", "mapHigh"}
        /\ ninits = 1
        /\ Running
        /\ LoopContinues(Head(run))
        /\ PTB_isEmpty(Rd(mem, EntryPtr(Head(run).this,
                                        DirIndex(Head(run).virt))))) =>
            pc' = "halted" /\ mem' = mem]_vars

\* C27: when an iteration of map finds the root entry of its address
\* empty, the walk installs a table there and goes on: the processor does
\* not halt and the root entry is populated afterwards.
C27_WalkAllocatesTable ==
    [][(/\ Running
        /\ LoopContinues(Head(run))
        /\ PTB_isEmpty(Rd(mem, EntryPtr(Head(run).this,
                                        DirIndex(Head(run).virt))))) =>
            /\ pc' # "halted"
            /\ ~PTB_isEmpty(Rd(mem', EntryPtr(Head(run).this,
                                              DirIndex(Head(run).virt))))]_vars

\* C28: on x86 an entry is empty exactly when its whole word is zero:
\* PageTableEntry::isEmpty and PageTableBase::isEmpty give the same answer
\* for every entry word.
C28_EmptyIffZeroWord ==
    (EntryOp("query") /\ build.arch = "i386") =>
        /\ step.empty <=> step.before = Zero
        /\ step.empty <=> PTB_isEmpty(step.before)

\* C29: no step of map, adjustTableAddresses, load or init empties a
\* populated entry or changes one of its present, writable, user, global
\* and large-page bits, and the address of a populated entry changes only
\* in adjustTableAddresses.
C29_EntriesOnlyGetPopulated ==
    [][\A s \in DOMAIN mem :
        Populated(mem[s]) =>
            /\ s \in DOMAIN mem'
            /\ Populated(mem'[s])
            /\ \A b \in {PA_PRESENT, PA_WRITABLE, PA_RING0, PA_GLOBAL,
                         PA_4MBYTE} :
                HasBit(mem'[s][2], b) <=> HasBit(mem[s][2], b)
            /\ mem'[s][1] # mem[s][1] => pc = "start"]_vars

C25_FramesAdjustedOnce ==
    (pc = "done" /\ cpu.valid) =>
        \A s \in DOMAIN mem :
            (s[1] = Slot(STACK)[1] /\ s[2] < Slot(STACK)[2]) =>
                /\ GE32(mem[s], KERNEL_CODE)
                /\ ~GE32(Sub32(mem[s], delta), KERNEL_CODE)

\* C30: on a frame chain whose links strictly increase and whose last link
\* points at or beyond STACK, the fix-up loop of enablePaging writes only to
\* stack words below STACK: no iteration changes the word after the one the
\* last link points at, or any other word at or above STACK.
C30_FixupWritesBelowStack ==
    [][pc = "fixup" =>
        \A s \in DOMAIN mem' :
            (s[1] > Slot(STACK)[1]
                \/ (s[1] = Slot(STACK)[1] /\ s[2] >= Slot(STACK)[2])) =>
                s \in DOMAIN mem /\ mem'[s] = mem[s]]_vars

====
